---- MODULE Spec2Model ----
(***************************************************************************)
(* pySWATPlus: the publishing workflow (.github/workflows/publish.yml) and *)
(* the calibration example (docs/examples/calibration.ipynb).              *)
(*                                                                         *)
(* Two state machines share this module:                                   *)
(*   SpecCI   the workflow: pushes, workflow runs, jobs, steps, effects    *)
(*   SpecCal  the calibration run of the notebook                          *)
(***************************************************************************)
EXTENDS Integers, Sequences, FiniteSets, TLC

VARIABLES
    \* ---- publishing workflow
    lastPush,   \* the last push event received, or NoPush
    runs,       \* the workflow runs started so far, in order of creation
    pypi,       \* versions uploaded to the package index
    releases,   \* tags a GitHub release exists for
    pages,      \* tags whose documentation site was deployed to GitHub Pages
    \* ---- calibration example
    x0,         \* the initial point handed to CMAES
    phase,      \* where minimize_pymoo is: "idle", "ask", "eval", "returned"
    n_eval,     \* evaluations the optimizer has counted
    inv,        \* every invocation of function_to_minimize, in order of proposal
    fs,         \* the file system: fs[d] is the content of directory d
    best,       \* the best evaluation minimize_pymoo has seen
    result      \* what minimize_pymoo returned to the caller

ciVars == <<lastPush, runs, pypi, releases, pages>>

calVars == <<x0, phase, n_eval, inv, fs, best, result>>

vars == <<ciVars, calVars>>

(***************************************************************************)
(* Bounds                                                                  *)
(***************************************************************************)
MaxRuns == 2

\* Candidates the optimizer proposes in one generation, at most.
MaxBatch == 2

\* np.random.random() and rng.random() draw from [0, 1): the model draws k/UDen
\* and k/FitDen with k below the denominator.
UDen == 2

FitDen == 2

(***************************************************************************)
(* publish.yml                                                             *)
(***************************************************************************)
NoPush == [kind |-> "none", name |-> <<>>]

\* Ref names are sequences of characters, so that a pattern is matched
\* character by character.
RefNames ==
    { <<"v", "1">>, <<"x", "1">>, <<"v", "/", "1">> }

RefKinds == {"branch", "tag"}

\* on.push.tags
TagPatterns == { <<"v", "*">> }

\* Filter pattern matching of the workflow syntax: '*' matches zero or more
\* characters but not '/', any other character matches itself.
RECURSIVE GlobMatch(_, _)
GlobMatch(p, s) ==
    IF p = <<>> THEN s = <<>>
    ELSE IF Head(p) = "*"
         THEN \/ GlobMatch(Tail(p), s)
              \/ /\ s # <<>>
                 /\ Head(s) # "/"
                 /\ GlobMatch(p, Tail(s))
         ELSE /\ s # <<>>
              /\ Head(s) = Head(p)
              /\ GlobMatch(Tail(p), Tail(s))

\* The same trigger written with a branches filter instead of a tags filter.
OnPushAnyRef(ref) ==
    \E p \in TagPatterns : GlobMatch(p, ref.name)

\* on: push: tags: ["v*"]. With only a tags filter the workflow does not run
\* for a push of a branch.
OnPush(ref) ==
    /\ ref.kind = "tag"
    /\ \E p \in TagPatterns : GlobMatch(p, ref.name)

JobNames == {"build-and-publish", "deploy-docs"}

\* The steps of build-and-publish with the release created before the upload.
BuildAndPublishStepsSwapped ==
    << "checkout", "setup-python", "install", "verify-version",
       "build", "gh-release", "pypi-upload" >>

\* jobs.build-and-publish.steps, in the listed order
BuildAndPublishSteps ==
    << "checkout", "setup-python", "install", "verify-version",
       "build", "pypi-upload", "gh-release" >>

\* jobs.deploy-docs.steps, in the listed order
DeployDocsSteps ==
    << "checkout", "setup-python", "install-mkdocs", "mkdocs-build", "gh-pages" >>

Steps(j) ==
    IF j = "build-and-publish" THEN BuildAndPublishSteps ELSE DeployDocsSteps

\* deploy-docs without its needs key.
NeedsNone(j) == {}

\* jobs.<job>.needs
Needs(j) ==
    IF j = "deploy-docs" THEN {"build-and-publish"} ELSE {}

NewJob == [status |-> "queued", log |-> <<>>, failedAt |-> ""]

NewRun(ref) == [ref |-> ref, job |-> [j \in JobNames |-> NewJob]]

\* No push yet; the notebook is not part of the workflow and stays idle.
CIInit ==
    /\ lastPush = NoPush
    /\ runs = <<>>
    /\ pypi = {}
    /\ releases = {}
    /\ pages = {}
    /\ x0 = <<>>
    /\ phase = "idle"
    /\ n_eval = 0
    /\ inv = <<>>
    /\ fs = <<>>
    /\ best = <<>>
    /\ result = <<>>

\* A push of a branch or of a tag. The workflow run starts when the trigger
\* matches; any other push starts nothing.
Push(kind, name) ==
    LET ref == [kind |-> kind, name |-> name] IN
    /\ lastPush' = ref
    /\ IF OnPush(ref)
       THEN /\ Len(runs) < MaxRuns
            /\ runs' = Append(runs, NewRun(ref))
       ELSE runs' = runs
    /\ UNCHANGED <<pypi, releases, pages, calVars>>

\* A queued job starts once every job it needs has succeeded; no job of this
\* workflow has an if: condition.
StartJob(r, j) ==
    /\ runs[r].job[j].status = "queued"
    /\ \A n \in Needs(j) : runs[r].job[n].status = "success"
    /\ runs' = [runs EXCEPT ![r].job[j].status = "running"]
    /\ UNCHANGED <<lastPush, pypi, releases, pages, calVars>>

\* A queued job is skipped when a job it needs failed or was skipped.
SkipJob(r, j) ==
    /\ runs[r].job[j].status = "queued"
    /\ \E n \in Needs(j) : runs[r].job[n].status \in {"failure", "skipped"}
    /\ runs' = [runs EXCEPT ![r].job[j].status = "skipped"]
    /\ UNCHANGED <<lastPush, pypi, releases, pages, calVars>>

\* The next step of a running job succeeds: its effect happens, and after the
\* last step the job has succeeded.
StepOk(r, j) ==
    LET jb   == runs[r].job[j]
        k    == Len(jb.log) + 1
        step == Steps(j)[k]
        tag  == runs[r].ref.name
    IN
    /\ jb.status = "running"
    /\ k <= Len(Steps(j))
    /\ runs' = [runs EXCEPT ![r].job[j] =
                   [jb EXCEPT !.log = Append(jb.log, step),
                              !.status = IF k = Len(Steps(j))
                                         THEN "success" ELSE "running"]]
    /\ pypi' = IF j = "build-and-publish" /\ step = "pypi-upload"
               THEN pypi \cup {tag} ELSE pypi
    /\ releases' = IF j = "build-and-publish" /\ step = "gh-release"
                   THEN releases \cup {tag} ELSE releases
    /\ pages' = IF j = "deploy-docs" /\ step = "gh-pages"
                THEN pages \cup {tag} ELSE pages
    /\ UNCHANGED <<lastPush, calVars>>

\* The next step of a running job fails: no step has continue-on-error, so
\* the job fails there and none of its later steps runs.
StepFail(r, j) ==
    LET jb == runs[r].job[j]
        k  == Len(jb.log) + 1
    IN
    /\ jb.status = "running"
    /\ k <= Len(Steps(j))
    /\ runs' = [runs EXCEPT ![r].job[j] =
                   [jb EXCEPT !.status = "failure", !.failedAt = Steps(j)[k]]]
    /\ UNCHANGED <<lastPush, pypi, releases, pages, calVars>>

CINext ==
    \/ \E kind \in RefKinds, name \in RefNames : Push(kind, name)
    \/ \E r \in DOMAIN runs, j \in JobNames : StartJob(r, j)
    \/ \E r \in DOMAIN runs, j \in JobNames : SkipJob(r, j)
    \/ \E r \in DOMAIN runs, j \in JobNames : StepOk(r, j)
    \/ \E r \in DOMAIN runs, j \in JobNames : StepFail(r, j)

(***************************************************************************)
(* calibration.ipynb                                                       *)
(*                                                                         *)
(* Parameter values are integers in units of 1/UDen of the parameter's     *)
(* unit; harv_idx is declared in tenths (0.4 is 4, 0.5 is 5). A fitness    *)
(* value is the numerator k of k/FitDen. A directory is a number; the      *)
(* TxtInOut folder of the notebook is directory 1.                         *)
(***************************************************************************)

\* txtinout_folder = '/mnt/c/.../muga_windows'
txtinout_folder == 1

\* SWATProblem(params={'plants.plt': ('name', [('bana', 'bm_e', 40, 50),
\*                                             ('bana', 'harv_idx', 0.4, 0.5)])})
params ==
    "plants.plt" :> << "name", << <<"bana", "bm_e", 40, 50>>,
                                  <<"bana", "harv_idx", 4, 5>> >> >>

\* The argument name a caller gets wrong.
param_arg_name_wrong == "params"

\* SWATProblem(param_arg_name='calibration_params')
param_arg_name == "calibration_params"

\* SWATProblem(n_workers=4, parallelization='threads')
n_workers == 4

\* SWATProblem(..., path_to_txtinout=txtinout_folder): the extra keyword
\* arguments
kwargs == "path_to_txtinout" :> txtinout_folder

\* n_simulations = 2
n_simulations == 2

\* The bounds given to denormalize: np.array([40, 0.4]), np.array([50, 0.5])
X0Lower == <<40, 4>>

X0Upper == <<50, 5>>

\* denormalize adding the upper bound instead of the lower one.
DenormalizeFromUpper(u, xl, xu) ==
    [i \in DOMAIN u |-> u[i] * (xu[i] - xl[i]) + xu[i] * UDen]

\* denormalize(u, xl, xu) = u * (xu - xl) + xl, for u[i]/UDen, in units of
\* 1/UDen
Denormalize(u, xl, xu) ==
    [i \in DOMAIN u |-> u[i] * (xu[i] - xl[i]) + xl[i] * UDen]

\* np.random.random(2): two draws from [0, 1)
RandomU == [1..2 -> 0..(UDen - 1)]

\* The declared tuples of the one file of params, and the bounds of the
\* problem, one variable per declared (id, col).
Declared == params["plants.plt"][2]

ProblemLower == [i \in DOMAIN Declared |-> Declared[i][3] * UDen]

ProblemUpper == [i \in DOMAIN Declared |-> Declared[i][4] * UDen]

\* get_termination("n_eval", n_simulations) met one evaluation late.
HasTerminatedLate == n_eval > n_simulations

\* get_termination("n_eval", n_simulations): met once the optimizer has
\* counted n_simulations evaluations
HasTerminated == n_eval >= n_simulations

\* The vectors the optimizer proposes: the two extreme corners of the box of
\* the problem and the initial point.
Candidates == {ProblemLower, ProblemUpper, x0}

\* The calibration parameters for a vector x:
\* {filename: (id_col, [(id, col, value)])}
CalibrationParams(x) ==
    [f \in DOMAIN params |->
        << params[f][1],
           [i \in DOMAIN params[f][2] |->
               << params[f][2][i][1], params[f][2][i][2], x[i] >>] >>]

\* The single dictionary an evaluation is called with.
BuildArgs(x) == (param_arg_name :> CalibrationParams(x)) @@ kwargs

None == 0

NoParams == <<>>

NoOutput == <<>>

\* The TxtInOut folder as the caller left it.
OriginalWorkspace == [params |-> NoParams, output |-> NoOutput]

NewInvocation(x) ==
    [x |-> x, args |-> BuildArgs(x), pc |-> "pending", tmp_path |-> None,
     ret |-> <<>>]

Inf == FitDen

NoBest == [x |-> <<>>, path |-> <<>>, error |-> Inf]

NoResult == <<>>

\* The invocations of the generation under evaluation.
Batch == (n_eval + 1)..Len(inv)

Running == {i \in DOMAIN inv : inv[i].pc \in {"copied", "written"}}

\* A cap on the invocations of one run. The last generation starts below
\* n_simulations evaluations, so the run itself stays under the cap.
MaxInvocations == n_simulations + MaxBatch

\* x0 = denormalize(np.random.random(2), ...); minimize_pymoo is entered.
CalInit ==
    /\ x0 \in {Denormalize(u, X0Lower, X0Upper) : u \in RandomU}
    /\ phase = "ask"
    /\ n_eval = 0
    /\ inv = <<>>
    /\ fs = (txtinout_folder :> OriginalWorkspace)
    /\ best = NoBest
    /\ result = NoResult
    /\ lastPush = NoPush
    /\ runs = <<>>
    /\ pypi = {}
    /\ releases = {}
    /\ pages = {}

\* The optimizer proposes a generation of candidates and the problem hands
\* them to its workers.
Ask ==
    /\ phase = "ask"
    /\ ~HasTerminated
    /\ \E b \in 1..MaxBatch :
          /\ Len(inv) + b <= MaxInvocations
          /\ \E xs \in [1..b -> Candidates] :
                inv' = inv \o [k \in 1..b |-> NewInvocation(xs[k])]
    /\ phase' = "eval"
    /\ UNCHANGED <<x0, n_eval, fs, best, result, ciVars>>

\* tempfile's directory for the i-th invocation: a name no other call gets.
TempDir(i) == i + 1

\* copy_swat called with one fixed directory as its target.
CopyTargetFixed == TempDir(1)

\* reader.copy_swat(target_dir=None)
CopyTarget == None

\* reader.copy_swat(target_dir): the reader's folder is copied into the target
\* directory, a new temporary directory when the target is None, and the
\* directory is returned.
CopyDir(i, target) == IF target = None THEN TempDir(i) ELSE target

CopySwat(src, dst) == (dst :> fs[src]) @@ fs

\* function_to_minimize, up to tmp_path = reader.copy_swat(target_dir=None),
\* on a free worker.
Copy(i) ==
    /\ phase = "eval"
    /\ inv[i].pc = "pending"
    /\ Cardinality(Running) < n_workers
    /\ fs' = CopySwat(inv[i].args["path_to_txtinout"], CopyDir(i, CopyTarget))
    /\ inv' = [inv EXCEPT ![i].pc = "copied",
                          ![i].tmp_path = CopyDir(i, CopyTarget)]
    /\ UNCHANGED <<x0, phase, n_eval, best, result, ciVars>>

\* The reader left on the folder the caller gave.
RunDirOriginal(i) == inv[i].args["path_to_txtinout"]

\* reader = TxtinoutReader(tmp_path): the folder run_swat works in
RunDir(i) == inv[i].tmp_path

\* reader.run_swat(calibration_params, ...), first half: the calibration
\* values are written into the files of the reader's folder.
WriteParams(i) ==
    /\ phase = "eval"
    /\ inv[i].pc = "copied"
    /\ fs' = [fs EXCEPT ![RunDir(i)].params = inv[i].args["calibration_params"]]
    /\ inv' = [inv EXCEPT ![i].pc = "written"]
    /\ UNCHANGED <<x0, phase, n_eval, best, result, ciVars>>

\* reader.run_swat, second half: the simulation runs in the reader's folder
\* on the values it finds there, and the folder is returned; then
\* return (rng.random(), {'test_calibration': result_reader.root_folder}).
Simulate(i, fit) ==
    /\ phase = "eval"
    /\ inv[i].pc = "written"
    /\ fs' = [fs EXCEPT ![RunDir(i)].output = fs[RunDir(i)].params]
    /\ inv' = [inv EXCEPT ![i].pc = "done",
                          ![i].ret = <<fit, "test_calibration" :> RunDir(i)>>]
    /\ UNCHANGED <<x0, phase, n_eval, best, result, ciVars>>

\* The best of the evaluations b .. Len(inv) and of what was best before,
\* with the location of the last evaluation instead of the best one's.
RECURSIVE BestFromLastPath(_, _)
BestFromLastPath(b, k) ==
    IF k > Len(inv) THEN b
    ELSE BestFromLastPath(
            IF inv[k].ret[1] < b.error
            THEN [x |-> inv[k].x, path |-> inv[Len(inv)].ret[2],
                  error |-> inv[k].ret[1]]
            ELSE b, k + 1)

\* The best of b and of the evaluations k .. Len(inv): an evaluation
\* replaces the best when its fitness is lower.
RECURSIVE BestFrom(_, _)
BestFrom(b, k) ==
    IF k > Len(inv) THEN b
    ELSE BestFrom(
            IF inv[k].ret[1] < b.error
            THEN [x |-> inv[k].x, path |-> inv[k].ret[2],
                  error |-> inv[k].ret[1]]
            ELSE b, k + 1)

\* Every candidate of the generation is evaluated: the optimizer counts the
\* evaluations and the best evaluation is kept.
Tell ==
    /\ phase = "eval"
    /\ \A i \in Batch : inv[i].pc = "done"
    /\ n_eval' = Len(inv)
    /\ best' = BestFrom(best, n_eval + 1)
    /\ phase' = "ask"
    /\ UNCHANGED <<x0, inv, fs, result, ciVars>>

\* The termination criterion is met: minimize_pymoo returns (x, path, error).
Return ==
    /\ phase = "ask"
    /\ HasTerminated
    /\ result' = <<best.x, best.path, best.error>>
    /\ phase' = "returned"
    /\ UNCHANGED <<x0, n_eval, inv, fs, best, ciVars>>

CalNext ==
    \/ Ask
    \/ \E i \in Batch : Copy(i)
    \/ \E i \in Batch : WriteParams(i)
    \/ \E i \in Batch, fit \in 0..(FitDen - 1) : Simulate(i, fit)
    \/ Tell
    \/ Return

(***************************************************************************)
(* Properties of the publishing workflow                                   *)
(***************************************************************************)
StartsWithV(name) == Len(name) >= 1 /\ name[1] = "v"

\* The place of step in log, 0 when it is not there.
Pos(log, step) ==
    IF \E k \in DOMAIN log : log[k] = step
    THEN CHOOSE k \in DOMAIN log : log[k] = step
    ELSE 0

BP(r) == runs[r].job["build-and-publish"]

DD(r) == runs[r].job["deploy-docs"]

\* C7: a workflow run exists only for a push of a tag whose name starts with
\* "v": no push of a branch and no push of another tag starts a job, and every
\* upload, release and documentation deployment belongs to such a run.
C7_RunsOnlyForVersionTags ==
    /\ \A r \in DOMAIN runs :
          /\ runs[r].ref.kind = "tag"
          /\ StartsWithV(runs[r].ref.name)
    /\ \A t \in pypi \cup releases \cup pages :
          \E r \in DOMAIN runs : runs[r].ref.name = t /\ runs[r].ref.kind = "tag"
    /\ (lastPush.kind = "branch" \/ ~StartsWithV(lastPush.name)) =>
          \A r \in DOMAIN runs : runs[r].ref # lastPush

\* A tag push started a run, and the push of a branch named v1 after it
\* started none.
C7_Witness ==
    /\ lastPush = [kind |-> "branch", name |-> <<"v", "1">>]
    /\ Len(runs) = 1
    /\ BP(1).status = "success"

\* C8: deploy-docs has started (and the site was built or deployed) only in
\* a run whose build-and-publish job succeeded, with the build, the upload
\* and the release creation done.
C8_DocsOnlyAfterPublish ==
    /\ \A r \in DOMAIN runs :
          (DD(r).status \in {"running", "success", "failure"} \/ DD(r).log # <<>>)
             => /\ BP(r).status = "success"
                /\ Pos(BP(r).log, "build") > 0
                /\ Pos(BP(r).log, "pypi-upload") > 0
                /\ Pos(BP(r).log, "gh-release") > 0
    /\ \A t \in pages :
          \E r \in DOMAIN runs :
             /\ runs[r].ref.name = t
             /\ BP(r).status = "success"
             /\ Pos(DD(r).log, "gh-pages") > 0

\* One run failed at the upload and its deploy-docs job was skipped; another
\* run published and then deployed the documentation.
C8_Witness ==
    \E r, q \in DOMAIN runs :
       /\ BP(r).status = "failure"
       /\ BP(r).failedAt = "pypi-upload"
       /\ DD(r).status = "skipped"
       /\ DD(q).status = "success"
       /\ runs[q].ref.name \in pages

\* C9: in build-and-publish the upload comes after the build and the release
\* after the upload; a failed step ends the job with no later step run; a
\* release exists only for an uploaded tag; an upload made stays when the
\* release creation fails.
C9_BuildUploadReleaseInOrder ==
    /\ \A r \in DOMAIN runs :
          LET log == BP(r).log IN
          /\ Pos(log, "pypi-upload") > 0 =>
                /\ Pos(log, "build") > 0
                /\ Pos(log, "build") < Pos(log, "pypi-upload")
          /\ Pos(log, "gh-release") > 0 =>
                /\ Pos(log, "pypi-upload") > 0
                /\ Pos(log, "pypi-upload") < Pos(log, "gh-release")
          /\ BP(r).status = "failure" =>
                /\ Pos(log, BP(r).failedAt) = 0
                /\ Pos(log, "gh-release") = 0
                /\ BP(r).failedAt \in {"build", "pypi-upload"} =>
                      Pos(log, "pypi-upload") = 0
                /\ BP(r).failedAt = "gh-release" => Pos(log, "pypi-upload") > 0
          /\ Pos(log, "pypi-upload") > 0 => runs[r].ref.name \in pypi
          /\ Pos(log, "gh-release") > 0 => runs[r].ref.name \in releases
    /\ releases \subseteq pypi

\* The release creation failed after the upload: the version is on the
\* package index and no release exists.
C9_Witness ==
    \E r \in DOMAIN runs :
       /\ BP(r).status = "failure"
       /\ BP(r).failedAt = "gh-release"
       /\ runs[r].ref.name \in pypi
       /\ runs[r].ref.name \notin releases

(***************************************************************************)
(* Properties of the calibration run                                       *)
(***************************************************************************)
Fit(i) == inv[i].ret[1]

Location(i) == inv[i].ret[2]["test_calibration"]

Values(i) ==
    LET cp == inv[i].args["calibration_params"]["plants.plt"][2]
    IN  [k \in DOMAIN cp |-> cp[k][3]]

\* C1: what minimize_pymoo returns is the best evaluation of the run: error
\* is the least fitness any invocation returned, and x and path are the
\* vector and the mapping of one invocation that returned it.
C1_ReturnsBestEvaluation ==
    phase = "returned" =>
       /\ \A i \in DOMAIN inv : result[3] <= Fit(i)
       /\ \E i \in DOMAIN inv :
             /\ Fit(i) = result[3]
             /\ inv[i].x = result[1]
             /\ inv[i].ret[2] = result[2]

\* The run returned, and its best evaluation was not the last one.
C1_Witness ==
    /\ phase = "returned"
    /\ \E i, j \in DOMAIN inv : i < j /\ Fit(i) < Fit(j) /\ inv[i].x # inv[j].x

\* C2: the run returns to the caller, and once the optimizer has counted
\* n_simulations evaluations no invocation of the scoring function is added
\* or started.
C2_RunsUntilTermination ==
    /\ <>(phase = "returned")
    /\ [][n_eval >= n_simulations => inv' = inv]_vars
    /\ [](phase = "returned" =>
             /\ n_eval >= n_simulations
             /\ \A i \in DOMAIN inv : inv[i].pc = "done")

\* The run returned after two generations.
C2_Witness ==
    /\ phase = "returned"
    /\ n_eval >= n_simulations
    /\ Len(inv) > MaxBatch

\* C4: the folder given as path_to_txtinout is never written or simulated
\* in: it stays as the caller left it, and every invocation copies to, runs
\* in and returns another directory.
C4_OriginalWorkspaceUnchanged ==
    /\ fs[txtinout_folder] = OriginalWorkspace
    /\ \A i \in DOMAIN inv :
          /\ inv[i].pc # "pending" => inv[i].tmp_path # txtinout_folder
          /\ inv[i].pc = "done" =>
                /\ Location(i) # txtinout_folder
                /\ fs[Location(i)].output # NoOutput

\* The run returned after more than one evaluation.
C4_Witness ==
    /\ phase = "returned"
    /\ Len(inv) >= 2
    /\ \A i \in DOMAIN inv : fs[Location(i)].output # NoOutput

\* C5: every invocation gets one dictionary holding the calibration
\* parameters under 'calibration_params', as {filename: (id_col, [(id, col,
\* value)])} with one value per declared (id, col), and the extra keyword
\* argument path_to_txtinout unchanged; it returns (fitness, {label:
\* location}).
C5_ArgumentsAndReturn ==
    \A i \in DOMAIN inv :
       /\ DOMAIN inv[i].args = {"calibration_params", "path_to_txtinout"}
       /\ inv[i].args["path_to_txtinout"] = txtinout_folder
       /\ DOMAIN inv[i].args["calibration_params"] = {"plants.plt"}
       /\ LET entry == inv[i].args["calibration_params"]["plants.plt"] IN
          /\ Len(entry) = 2
          /\ entry[1] = "name"
          /\ Len(entry[2]) = 2
          /\ entry[2][1] = <<"bana", "bm_e", inv[i].x[1]>>
          /\ entry[2][2] = <<"bana", "harv_idx", inv[i].x[2]>>
       /\ inv[i].pc = "done" =>
             /\ Len(inv[i].ret) = 2
             /\ Fit(i) \in 0..(FitDen - 1)
             /\ DOMAIN inv[i].ret[2] = {"test_calibration"}
             /\ Location(i) \in DOMAIN fs

\* An invocation called with the initial point has returned.
C5_Witness ==
    \E i \in DOMAIN inv :
       /\ inv[i].pc = "done"
       /\ inv[i].x = x0
       /\ Values(i) = x0

\* bm_e in [40, 50] and harv_idx in [0.4, 0.5], in units of 1/UDen.
InDeclaredBounds(v) ==
    /\ DOMAIN v = 1..2
    /\ 40 * UDen <= v[1] /\ v[1] <= 50 * UDen
    /\ 4 * UDen <= v[2] /\ v[2] <= 5 * UDen

C10_InvocationsIsolated ==
    /\ \A i, j \in DOMAIN inv :
          (i # j /\ inv[i].pc # "pending" /\ inv[j].pc # "pending")
             => inv[i].tmp_path # inv[j].tmp_path
    /\ \A i \in DOMAIN inv :
          /\ inv[i].pc # "pending" => inv[i].tmp_path # txtinout_folder
          /\ inv[i].pc \in {"written", "done"} =>
                fs[inv[i].tmp_path].params = inv[i].args["calibration_params"]
          /\ inv[i].pc = "done" =>
                /\ Location(i) = inv[i].tmp_path
                /\ fs[Location(i)].output = inv[i].args["calibration_params"]

\* Two invocations with different values ran at the same time, and the one
\* proposed later returned first.
C10_Witness ==
    \E i, j \in DOMAIN inv :
       /\ i < j
       /\ inv[i].x # inv[j].x
       /\ inv[i].pc = "written"
       /\ inv[j].pc = "done"

(***************************************************************************)
(* Specifications                                                          *)
(***************************************************************************)
SpecCI == CIInit /\ [][CINext]_vars

SpecCal == CalInit /\ [][CalNext]_vars

\* Every invocation of function_to_minimize returns and the optimizer keeps
\* running: no enabled step is postponed for ever.
SpecCalFair == SpecCal /\ WF_vars(CalNext)

====
